---- MODULE Spec2Model ----
(***************************************************************************)
(* Model of the Waitlister MCP server (src/src/index.ts): startup          *)
(* credential checks, registration of the five tools, and the translation  *)
(* of one tool call into one authenticated HTTP request and one result or  *)
(* error.                                                                  *)
(*                                                                         *)
(* Conventions.  An optional value (a parameter that may be undefined, an  *)
(* environment variable that may be unset) is a set with at most one       *)
(* element: {} is undefined, {v} is the value v.  A JavaScript object is a *)
(* function from its keys to its values.  The string id_or_email, the only *)
(* string that is encoded character by character, is a sequence of UTF-16  *)
(* code units; every other string is a TLA+ string.                        *)
(***************************************************************************)
EXTENDS Integers, Sequences, FiniteSets, TLC

VARIABLES API_KEY, WAITLIST_KEY, pc, exitCode, tools, connected, inv

vars == <<API_KEY, WAITLIST_KEY, pc, exitCode, tools, connected, inv>>

(***************************************************************************)
(* Bounds of the model.                                                    *)
(***************************************************************************)
MaxIdLen == 2        \* longest id_or_email, in code units
NumInv == 2          \* tool invocations in flight at once (SpecConc)

(***************************************************************************)
(* JavaScript values and helpers.                                          *)
(***************************************************************************)
Opt(S) == {{}} \cup {{v} : v \in S}
Val(o) == CHOOSE v \in o : TRUE
EmptyObj == [k \in {} |-> ""]

\* { ...a, ...b }: the keys of both, b's value on a common key.
Spread(a, b) == b @@ a

\* Truthiness of an optional string: undefined and "" are falsy.
TruthyStr(o) == o # {} /\ o # {""}
\* Truthiness of an optional object: every object, the empty one too, is truthy.
TruthyObj(o) == o # {}

(***************************************************************************)
(* Configuration, lines 8-22.                                              *)
(***************************************************************************)
API_BASE == "https://waitlister.me/api/v1"

\* Variant: only an unset variable counts as missing (=== undefined).
MissingUnsetOnly(v) == v = {}
\* !API_KEY, !WAITLIST_KEY: unset or empty.
Missing(v) == ~TruthyStr(v)

(***************************************************************************)
(* encodeURIComponent over UTF-16 code units: an unreserved character is   *)
(* kept, a reserved one is percent-encoded, a surrogate pair is encoded as *)
(* the four UTF-8 bytes of its code point, and a lone surrogate throws     *)
(* URIError.                                                               *)
(***************************************************************************)
High == "<D800>"
Low == "<DC00>"
CodeUnits == {"a", "@", High, Low}

PercentEncode(c) == IF c = "@" THEN "%40" ELSE c

RECURSIVE encodeURIComponent(_)
encodeURIComponent(u) ==
  IF u = <<>> THEN [thrown |-> FALSE, s |-> ""]
  ELSE IF Head(u) = Low THEN [thrown |-> TRUE, s |-> ""]
  ELSE IF Head(u) = High
    THEN IF Len(u) >= 2 /\ u[2] = Low
           THEN LET r == encodeURIComponent(SubSeq(u, 3, Len(u)))
                IN  IF r.thrown THEN r
                    ELSE [thrown |-> FALSE, s |-> "%F0%90%80%80" \o r.s]
           ELSE [thrown |-> TRUE, s |-> ""]
  ELSE LET r == encodeURIComponent(Tail(u))
       IN  IF r.thrown THEN r
           ELSE [thrown |-> FALSE, s |-> PercentEncode(Head(u)) \o r.s]

\* JSON.stringify of a value built from strings, finite numbers, null, arrays and
\* objects: the JSON text of the document with the same keys and values.
JSONstringify(v) == [json |-> v]

(***************************************************************************)
(* apiRequest, lines 25-51.                                                *)
(***************************************************************************)
\* The headers of the request, lines 33-37.
RequestHeaders(options) ==
  Spread(("Content-Type" :> "application/json") @@ ("X-Api-Key" :> Val(API_KEY)),
         IF "headers" \in DOMAIN options THEN options["headers"] ELSE EmptyObj)

\* Variant: the request is issued a second time.
FetchCallsTwice(path, options) ==
  LET call == [url  |-> API_BASE \o "/waitlist/" \o Val(WAITLIST_KEY) \o path,
               init |-> Spread(options, "headers" :> RequestHeaders(options))]
  IN  <<call, call>>
\* The calls of fetch one apiRequest makes, lines 29-38: one.
FetchCalls(path, options) ==
  << [url  |-> API_BASE \o "/waitlist/" \o Val(WAITLIST_KEY) \o path,
      init |-> Spread(options, "headers" :> RequestHeaders(options))] >>

\* response.ok
Ok(status) == status >= 200 /\ status <= 299

\* typeof data === "object" && data !== null && "message" in data
HasMessage(data) == data.t = "object" /\ "message" \in DOMAIN data.o

\* Variants: the status is put before the message; the status text is left out.
ErrorMessageStatusAdded(res) ==
  IF HasMessage(res.data)
    THEN "API error: " \o ToString(res.status) \o " " \o res.data.o["message"]
    ELSE "API error: " \o ToString(res.status) \o " " \o res.statusText
ErrorMessageNoStatusText(res) ==
  IF HasMessage(res.data)
    THEN res.data.o["message"]
    ELSE "API error: " \o ToString(res.status)
\* Lines 43-46.
ErrorMessage(res) ==
  IF HasMessage(res.data)
    THEN res.data.o["message"]
    ELSE "API error: " \o ToString(res.status) \o " " \o res.statusText

\* How apiRequest settles once response.json() has settled with data, lines
\* 40-50: the parse failed, the status is not ok, or data is returned.
apiRequest(response, data) ==
  IF data.t = "unparsable"
    THEN [thrown |-> TRUE, name |-> "SyntaxError", message |-> data.message]
  ELSE IF ~Ok(response.status)
    THEN [thrown |-> TRUE, name |-> "Error",
          message |-> ErrorMessage([status |-> response.status,
                                    statusText |-> response.statusText,
                                    data |-> data])]
  ELSE [thrown |-> FALSE, data |-> data]

\* Lines 54-63.
textResponse(data) ==
  [content |-> << [type |-> "text", text |-> JSONstringify(data)] >>]

(***************************************************************************)
(* Tool: add_subscriber, lines 73-109.                                     *)
(***************************************************************************)
\* z.string().email(): the addresses of the model that are well formed.
ValidEmails == {"a@b.com"}

\* Lines 76-90.
add_subscriber_schema(a) == a.email # {} /\ Val(a.email) \in ValidEmails

\* Variants: the spread order is swapped, so the metadata wins on a collision;
\* an empty merged metadata is not sent.
add_subscriber_body_metadata_wins(a) ==
  LET b0 == "email" :> Val(a.email)
      b1 == IF TruthyStr(a.name) THEN Spread(b0, "name" :> Val(a.name)) ELSE b0
      b2 == IF TruthyStr(a.phone) THEN Spread(b1, "phone" :> Val(a.phone)) ELSE b1
  IN  IF TruthyStr(a.referred_by) \/ TruthyObj(a.metadata)
        THEN Spread(b2, "metadata" :>
               Spread(IF TruthyStr(a.referred_by)
                        THEN "referred_by" :> Val(a.referred_by)
                        ELSE EmptyObj,
                      IF TruthyObj(a.metadata) THEN Val(a.metadata) ELSE EmptyObj))
        ELSE b2
add_subscriber_body_skip_empty(a) ==
  LET b0 == "email" :> Val(a.email)
      b1 == IF TruthyStr(a.name) THEN Spread(b0, "name" :> Val(a.name)) ELSE b0
      b2 == IF TruthyStr(a.phone) THEN Spread(b1, "phone" :> Val(a.phone)) ELSE b1
      m  == Spread(IF TruthyObj(a.metadata) THEN Val(a.metadata) ELSE EmptyObj,
                   IF TruthyStr(a.referred_by)
                     THEN "referred_by" :> Val(a.referred_by)
                     ELSE EmptyObj)
  IN  IF DOMAIN m # {} THEN Spread(b2, "metadata" :> m) ELSE b2
\* Lines 92-100.
add_subscriber_body(a) ==
  LET b0 == "email" :> Val(a.email)
      b1 == IF TruthyStr(a.name) THEN Spread(b0, "name" :> Val(a.name)) ELSE b0
      b2 == IF TruthyStr(a.phone) THEN Spread(b1, "phone" :> Val(a.phone)) ELSE b1
  IN  IF TruthyStr(a.referred_by) \/ TruthyObj(a.metadata)
        THEN Spread(b2, "metadata" :>
               Spread(IF TruthyObj(a.metadata) THEN Val(a.metadata) ELSE EmptyObj,
                      IF TruthyStr(a.referred_by)
                        THEN "referred_by" :> Val(a.referred_by)
                        ELSE EmptyObj))
        ELSE b2

\* Lines 102-105: the apiRequest call of the handler.
add_subscriber_call(a) ==
  [thrown |-> FALSE, path |-> "/sign-up",
   options |-> ("method" :> "POST") @@ ("body" :> JSONstringify(add_subscriber_body(a)))]

(***************************************************************************)
(* Tool: list_subscribers, lines 113-148.                                  *)
(***************************************************************************)
LimitMin == 1
LimitMax == 100
LimitDefault == 20
PageMin == 1
PageDefault == 1
SortBy == {"position", "points", "date", "referral_count", "email"}
SortDir == {"asc", "desc"}

\* Variant: limit has no upper bound.
list_subscribers_schema_no_max(a) ==
  /\ a.limit # {} => Val(a.limit) >= LimitMin
  /\ a.page # {} => Val(a.page) >= PageMin
  /\ a.sort_by # {} => Val(a.sort_by) \in SortBy
  /\ a.sort_dir # {} => Val(a.sort_dir) \in SortDir
\* Lines 116-136.
list_subscribers_schema(a) ==
  /\ a.limit # {} => Val(a.limit) >= LimitMin /\ Val(a.limit) <= LimitMax
  /\ a.page # {} => Val(a.page) >= PageMin
  /\ a.sort_by # {} => Val(a.sort_by) \in SortBy
  /\ a.sort_dir # {} => Val(a.sort_dir) \in SortDir

\* The defaults of the schema.
list_subscribers_parsed(a) ==
  [limit    |-> IF a.limit = {} THEN LimitDefault ELSE Val(a.limit),
   page     |-> IF a.page = {} THEN PageDefault ELSE Val(a.page),
   sort_by  |-> IF a.sort_by = {} THEN "date" ELSE Val(a.sort_by),
   sort_dir |-> IF a.sort_dir = {} THEN "desc" ELSE Val(a.sort_dir)]

\* Lines 138-145.
list_subscribers_call(a) ==
  LET p == list_subscribers_parsed(a)
  IN  [thrown |-> FALSE,
       path |-> "/subscribers?limit=" \o ToString(p.limit) \o "&page=" \o ToString(p.page)
                  \o "&sort_by=" \o p.sort_by \o "&sort_dir=" \o p.sort_dir,
       options |-> EmptyObj]

(***************************************************************************)
(* Tool: get_subscriber, lines 152-167.                                    *)
(***************************************************************************)
get_subscriber_schema(a) == a.id_or_email # {}

get_subscriber_call(a) ==
  LET encoded == encodeURIComponent(Val(a.id_or_email))
  IN  [thrown |-> encoded.thrown, path |-> "/subscribers/" \o encoded.s,
       options |-> EmptyObj]

(***************************************************************************)
(* Tool: update_subscriber, lines 171-205.                                 *)
(***************************************************************************)
update_subscriber_schema(a) == a.id_or_email # {}

\* Variant: the fields are tested by truthiness, as in add_subscriber.
update_subscriber_body_truthy(a) ==
  LET b0 == EmptyObj
      b1 == IF TruthyStr(a.name) THEN Spread(b0, "name" :> Val(a.name)) ELSE b0
      b2 == IF TruthyStr(a.phone) THEN Spread(b1, "phone" :> Val(a.phone)) ELSE b1
      b3 == IF a.points # {} /\ a.points # {0}
              THEN Spread(b2, "points" :> Val(a.points)) ELSE b2
  IN  IF a.metadata # {} THEN Spread(b3, "metadata" :> Val(a.metadata)) ELSE b3
\* Lines 191-195.
update_subscriber_body(a) ==
  LET b0 == EmptyObj
      b1 == IF a.name # {} THEN Spread(b0, "name" :> Val(a.name)) ELSE b0
      b2 == IF a.phone # {} THEN Spread(b1, "phone" :> Val(a.phone)) ELSE b1
      b3 == IF a.points # {} THEN Spread(b2, "points" :> Val(a.points)) ELSE b2
  IN  IF a.metadata # {} THEN Spread(b3, "metadata" :> Val(a.metadata)) ELSE b3

\* Lines 197-201.
update_subscriber_call(a) ==
  LET encoded == encodeURIComponent(Val(a.id_or_email))
  IN  [thrown |-> encoded.thrown, path |-> "/subscribers/" \o encoded.s,
       options |-> ("method" :> "PUT")
                     @@ ("body" :> JSONstringify(update_subscriber_body(a)))]

(***************************************************************************)
(* Tool: log_view, lines 209-238.                                          *)
(***************************************************************************)
log_view_schema(a) == TRUE

\* Variant: referring_domain is sent as a top-level key.
log_view_body_top_level(a) ==
  LET b0 == EmptyObj
      b1 == IF TruthyStr(a.visitor_id)
              THEN Spread(b0, "visitor_id" :> Val(a.visitor_id)) ELSE b0
  IN  IF TruthyStr(a.referring_domain)
        THEN Spread(b1, "referring_domain" :> Val(a.referring_domain))
        ELSE b1
\* Lines 225-229.
log_view_body(a) ==
  LET b0 == EmptyObj
      b1 == IF TruthyStr(a.visitor_id)
              THEN Spread(b0, "visitor_id" :> Val(a.visitor_id)) ELSE b0
  IN  IF TruthyStr(a.referring_domain)
        THEN Spread(b1, "metadata" :> ("referring_domain" :> Val(a.referring_domain)))
        ELSE b1

\* Lines 231-234.
log_view_call(a) ==
  [thrown |-> FALSE, path |-> "/log-view",
   options |-> ("method" :> "POST") @@ ("body" :> JSONstringify(log_view_body(a)))]

(***************************************************************************)
(* The inputs of the model: what a caller may pass to each tool, and what  *)
(* the remote API may answer.                                              *)
(***************************************************************************)
RECURSIVE SeqsUpTo(_, _)
SeqsUpTo(S, n) ==
  IF n = 0 THEN {<<>>}
  ELSE LET shorter == SeqsUpTo(S, n - 1)
       IN  shorter \cup {Append(u, c) : u \in shorter, c \in S}

IdStrings == SeqsUpTo(CodeUnits, MaxIdLen)
Names == {"", "Ann"}
Phones == {"", "+1"}
ReferralCodes == {"", "REF1"}
AddMetadata == {EmptyObj, [company |-> "Acme"], [referred_by |-> "OLD"],
                [referred_by |-> "OLD", company |-> "Acme"]}
UpdateMetadata == {EmptyObj, [company |-> "Acme"]}

AddSubscriberArgs ==
  [email : Opt({"a@b.com", "not-an-email"}), name : Opt(Names), phone : Opt(Phones),
   referred_by : Opt(ReferralCodes), metadata : Opt(AddMetadata)]
ListSubscribersArgs ==
  [limit : Opt({0, 1, 100, 101}), page : Opt({0, 1, 2}),
   sort_by : Opt({"email", "name"}), sort_dir : Opt({"asc", "up"})]
GetSubscriberArgs == [id_or_email : Opt(IdStrings)]
UpdateSubscriberArgs ==
  [id_or_email : Opt(IdStrings), name : Opt(Names), phone : Opt(Phones),
   points : Opt({0, 5}), metadata : Opt(UpdateMetadata)]
LogViewArgs == [visitor_id : Opt({"", "v1"}), referring_domain : Opt({"", "t.co"})]

\* What fetch resolves with: the status line of the response.
Responses ==
  {[status |-> 200, statusText |-> "OK"],
   [status |-> 404, statusText |-> "Not Found"],
   [status |-> 500, statusText |-> "Internal Server Error"]}
\* What fetch rejects with.
FetchErrors == {[name |-> "TypeError", message |-> "fetch failed"]}
\* What response.json() settles with: a parsed JSON value, or a parse failure.
Bodies ==
  {[t |-> "unparsable", message |-> "Unexpected token < in JSON at position 0"],
   [t |-> "object", o |-> [message |-> "Not found"]],
   [t |-> "object", o |-> [message |-> ""]],
   [t |-> "object", o |-> [id |-> "1"]],
   [t |-> "null"],
   [t |-> "array"]}

(***************************************************************************)
(* State.  pc is the position of the module's top-level code; inv[i] is    *)
(* tool invocation i: its phase (idle, fetch: suspended at line 31, json:  *)
(* suspended at line 40, done), the tool and arguments it was called with, *)
(* the fetch calls issued for it, what fetch rejected or resolved with,    *)
(* what response.json() settled with, and the outcomes returned to the     *)
(* caller.                                                                 *)
(***************************************************************************)
ApiKeyEnv == {{}, {""}, {"sk_1"}}
WaitlistKeyEnv == {{}, {""}, {"wl_1"}, {"wl_2"}}
ToolOrder ==
  <<"add_subscriber", "list_subscribers", "get_subscriber", "update_subscriber",
    "log_view">>
Registered == {tools[k] : k \in DOMAIN tools}

Idle ==
  [phase |-> "idle", tool |-> "", args |-> <<>>, calls |-> <<>>, failure |-> <<>>,
   response |-> <<>>, data |-> <<>>, outcomes |-> <<>>]

InitWith(Slots) ==
  /\ API_KEY \in ApiKeyEnv
  /\ WAITLIST_KEY \in WaitlistKeyEnv
  /\ pc = "check_api_key"
  /\ exitCode = {}
  /\ tools = <<>>
  /\ connected = FALSE
  /\ inv = [i \in Slots |-> Idle]

(***************************************************************************)
(* Startup, lines 12-22, 66-238 and 242-251.                               *)
(***************************************************************************)
CheckApiKey ==
  /\ pc = "check_api_key"
  /\ IF Missing(API_KEY)
       THEN pc' = "exited" /\ exitCode' = {1}
       ELSE pc' = "check_waitlist_key" /\ UNCHANGED exitCode
  /\ UNCHANGED <<API_KEY, WAITLIST_KEY, tools, connected, inv>>

CheckWaitlistKey ==
  /\ pc = "check_waitlist_key"
  /\ IF Missing(WAITLIST_KEY)
       THEN pc' = "exited" /\ exitCode' = {1}
       ELSE pc' = "register" /\ UNCHANGED exitCode
  /\ UNCHANGED <<API_KEY, WAITLIST_KEY, tools, connected, inv>>

\* One server.tool(...) call, in source order.
RegisterTool ==
  /\ pc = "register"
  /\ tools' = Append(tools, ToolOrder[Len(tools) + 1])
  /\ pc' = IF Len(tools') = Len(ToolOrder) THEN "main" ELSE "register"
  /\ UNCHANGED <<API_KEY, WAITLIST_KEY, exitCode, connected, inv>>

\* main(): server.connect(transport) resolves.
Connect ==
  /\ pc = "main"
  /\ connected' = TRUE
  /\ pc' = "running"
  /\ UNCHANGED <<API_KEY, WAITLIST_KEY, exitCode, tools, inv>>

\* main(): server.connect(transport) rejects, lines 248-251.
ConnectFail ==
  /\ pc = "main"
  /\ pc' = "exited"
  /\ exitCode' = {1}
  /\ UNCHANGED <<API_KEY, WAITLIST_KEY, tools, connected, inv>>

Startup == CheckApiKey \/ CheckWaitlistKey \/ RegisterTool \/ Connect \/ ConnectFail

(***************************************************************************)
(* A tool call.  The runtime validates the arguments against the tool's    *)
(* schema and, when they pass, runs the handler up to its first await: the *)
(* fetch of apiRequest.                                                    *)
(***************************************************************************)
\* What the caller gets when the handler's promise settles.
ToolOutcome(settled) ==
  IF settled.thrown
    THEN [kind |-> "error", text |-> settled.message]
    ELSE [kind |-> "result", result |-> textResponse(settled.data)]

InvalidParams == [kind |-> "invalid_params"]
URIError == [thrown |-> TRUE, name |-> "URIError", message |-> "URI malformed"]

Started(tool, a, schemaOk, call) ==
  IF ~schemaOk
    THEN [Idle EXCEPT !.phase = "done", !.tool = tool, !.args = <<a>>,
                      !.outcomes = <<InvalidParams>>]
  ELSE IF call.thrown
    THEN [Idle EXCEPT !.phase = "done", !.tool = tool, !.args = <<a>>,
                      !.outcomes = <<ToolOutcome(URIError)>>]
  ELSE [Idle EXCEPT !.phase = "fetch", !.tool = tool, !.args = <<a>>,
                    !.calls = FetchCalls(call.path, call.options)]

\* The runtime dispatches a call of a registered tool to a free invocation.
CanInvoke(i, tool) ==
  /\ pc = "running"
  /\ tool \in Registered
  /\ inv[i].phase = "idle"

add_subscriber(i, Args) ==
  /\ CanInvoke(i, "add_subscriber")
  /\ \E a \in Args :
       inv' = [inv EXCEPT ![i] = Started("add_subscriber", a, add_subscriber_schema(a),
                                         add_subscriber_call(a))]
  /\ UNCHANGED <<API_KEY, WAITLIST_KEY, pc, exitCode, tools, connected>>

list_subscribers(i, Args) ==
  /\ CanInvoke(i, "list_subscribers")
  /\ \E a \in Args :
       inv' = [inv EXCEPT ![i] = Started("list_subscribers", a,
                                         list_subscribers_schema(a),
                                         list_subscribers_call(a))]
  /\ UNCHANGED <<API_KEY, WAITLIST_KEY, pc, exitCode, tools, connected>>

get_subscriber(i, Args) ==
  /\ CanInvoke(i, "get_subscriber")
  /\ \E a \in Args :
       inv' = [inv EXCEPT ![i] = Started("get_subscriber", a, get_subscriber_schema(a),
                                         get_subscriber_call(a))]
  /\ UNCHANGED <<API_KEY, WAITLIST_KEY, pc, exitCode, tools, connected>>

update_subscriber(i, Args) ==
  /\ CanInvoke(i, "update_subscriber")
  /\ \E a \in Args :
       inv' = [inv EXCEPT ![i] = Started("update_subscriber", a,
                                         update_subscriber_schema(a),
                                         update_subscriber_call(a))]
  /\ UNCHANGED <<API_KEY, WAITLIST_KEY, pc, exitCode, tools, connected>>

log_view(i, Args) ==
  /\ CanInvoke(i, "log_view")
  /\ \E a \in Args :
       inv' = [inv EXCEPT ![i] = Started("log_view", a, log_view_schema(a),
                                         log_view_call(a))]
  /\ UNCHANGED <<API_KEY, WAITLIST_KEY, pc, exitCode, tools, connected>>

\* Variant: an error also fails every other invocation that is waiting.
SettleEveryPending(i, outcome) ==
  [j \in DOMAIN inv |->
     IF j = i \/ (outcome.kind = "error" /\ inv[j].phase \in {"fetch", "json"})
       THEN [inv[j] EXCEPT !.phase = "done", !.outcomes = Append(@, outcome)]
       ELSE inv[j]]
\* The handler's promise settles: the invocation, and no other, gets the outcome.
Settle(i, outcome) ==
  [inv EXCEPT ![i].phase = "done", ![i].outcomes = Append(@, outcome)]

\* Line 31: fetch rejects (network failure); the handler rejects with it.
FetchReject(i, e) ==
  /\ inv[i].phase = "fetch"
  /\ inv' = [Settle(i, ToolOutcome([thrown |-> TRUE, name |-> e.name,
                                    message |-> e.message]))
               EXCEPT ![i].failure = <<e>>]
  /\ UNCHANGED <<API_KEY, WAITLIST_KEY, pc, exitCode, tools, connected>>

\* Line 31: fetch resolves with a response; the handler suspends at line 40.
FetchResolve(i, r) ==
  /\ inv[i].phase = "fetch"
  /\ inv' = [inv EXCEPT ![i].phase = "json", ![i].response = <<r>>]
  /\ UNCHANGED <<API_KEY, WAITLIST_KEY, pc, exitCode, tools, connected>>

\* Lines 40-50 and the handler's return: response.json() settles with d.
JsonSettle(i, d) ==
  /\ inv[i].phase = "json"
  /\ inv' = [Settle(i, ToolOutcome(apiRequest(inv[i].response[1], d)))
               EXCEPT ![i].data = <<d>>]
  /\ UNCHANGED <<API_KEY, WAITLIST_KEY, pc, exitCode, tools, connected>>

\* The runtime has sent the outcome to the caller; the invocation is gone.
Return(i) ==
  /\ inv[i].phase = "done"
  /\ inv' = [inv EXCEPT ![i] = Idle]
  /\ UNCHANGED <<API_KEY, WAITLIST_KEY, pc, exitCode, tools, connected>>

(***************************************************************************)
(* Spec: one invocation at a time, every input of the model.               *)
(***************************************************************************)
Init == InitWith({1})

Next ==
  \/ Startup
  \/ add_subscriber(1, AddSubscriberArgs)
  \/ list_subscribers(1, ListSubscribersArgs)
  \/ get_subscriber(1, GetSubscriberArgs)
  \/ update_subscriber(1, UpdateSubscriberArgs)
  \/ log_view(1, LogViewArgs)
  \/ \E e \in FetchErrors : FetchReject(1, e)
  \/ \E r \in Responses : FetchResolve(1, r)
  \/ \E d \in Bodies : JsonSettle(1, d)
  \/ Return(1)

Spec == Init /\ [][Next]_vars

(***************************************************************************)
(* SpecConc: NumInv invocations in flight at once, settling in any order,  *)
(* over a few inputs of every tool.                                        *)
(***************************************************************************)
Invs == 1 .. NumInv

ConcAddSubscriberArgs ==
  {[email |-> {"a@b.com"}, name |-> {}, phone |-> {}, referred_by |-> {"REF1"},
    metadata |-> {}]}
ConcListSubscribersArgs ==
  {[limit |-> {0}, page |-> {}, sort_by |-> {}, sort_dir |-> {}]}
ConcGetSubscriberArgs == {[id_or_email |-> {<<"a">>}], [id_or_email |-> {<<Low>>}]}
ConcUpdateSubscriberArgs ==
  {[id_or_email |-> {<<"a">>}, name |-> {}, phone |-> {}, points |-> {0},
    metadata |-> {}]}
ConcLogViewArgs == {[visitor_id |-> {"v1"}, referring_domain |-> {}]}
ConcResponses == {r \in Responses : r.statusText \in {"OK", "Not Found"}}
ConcBodies == {d \in Bodies : d.t = "unparsable" \/ (d.t = "object" /\ d.o \in
                 {[message |-> "Not found"], [id |-> "1"]})}

InitConc == InitWith(Invs)

NextConc ==
  \/ Startup
  \/ \E i \in Invs : add_subscriber(i, ConcAddSubscriberArgs)
  \/ \E i \in Invs : list_subscribers(i, ConcListSubscribersArgs)
  \/ \E i \in Invs : get_subscriber(i, ConcGetSubscriberArgs)
  \/ \E i \in Invs : update_subscriber(i, ConcUpdateSubscriberArgs)
  \/ \E i \in Invs : log_view(i, ConcLogViewArgs)
  \/ \E i \in Invs, e \in FetchErrors : FetchReject(i, e)
  \/ \E i \in Invs, r \in ConcResponses : FetchResolve(i, r)
  \/ \E i \in Invs, d \in ConcBodies : JsonSettle(i, d)
  \/ \E i \in Invs : Return(i)

SpecConc == InitConc /\ [][NextConc]_vars

(***************************************************************************)
(* Properties.                                                             *)
(***************************************************************************)
Invoked(i, tool) == inv[i].phase # "idle" /\ inv[i].tool = tool
Arg(i) == inv[i].args[1]
Sent(i) == inv[i].calls # <<>>
Init1(i) == inv[i].calls[1].init
Body(i) == Init1(i)["body"].json
Done(i) == inv[i].phase = "done"

\* The arguments of invocation i pass the schema of its tool.
SchemaOk(i) ==
  CASE inv[i].tool = "add_subscriber" -> add_subscriber_schema(Arg(i))
    [] inv[i].tool = "list_subscribers" -> list_subscribers_schema(Arg(i))
    [] inv[i].tool = "get_subscriber" -> get_subscriber_schema(Arg(i))
    [] inv[i].tool = "update_subscriber" -> update_subscriber_schema(Arg(i))
    [] inv[i].tool = "log_view" -> log_view_schema(Arg(i))

\* The supplied metadata with referred_by -> r added, r winning on a collision.
WithReferredBy(m, r) ==
  [k \in DOMAIN m \cup {"referred_by"} |-> IF k = "referred_by" THEN r ELSE m[k]]

\* C1 as stated: a valid add_subscriber call that supplies both referred_by and
\* metadata sends a body whose metadata is the supplied mapping with
\* referred_by -> <the supplied referred_by> added, the parameter winning on a
\* collision and every other key kept.
C1_AsStated ==
  \A i \in DOMAIN inv :
    (Invoked(i, "add_subscriber") /\ SchemaOk(i)
       /\ Arg(i).referred_by # {} /\ Arg(i).metadata # {})
      => /\ Sent(i)
         /\ Init1(i)["method"] = "POST"
         /\ "metadata" \in DOMAIN Body(i)
         /\ Body(i)["metadata"]
              = WithReferredBy(Val(Arg(i).metadata), Val(Arg(i).referred_by))

\* C1 amended: the same when the supplied referred_by is a non-empty string; when
\* it is the empty string the body's metadata is the supplied metadata unchanged.
C1_MetadataUnion ==
  \A i \in DOMAIN inv :
    (Invoked(i, "add_subscriber") /\ SchemaOk(i)
       /\ Arg(i).referred_by # {} /\ Arg(i).metadata # {})
      => /\ Sent(i)
         /\ Init1(i)["method"] = "POST"
         /\ "metadata" \in DOMAIN Body(i)
         /\ Body(i)["metadata"]
              = IF Val(Arg(i).referred_by) # ""
                  THEN WithReferredBy(Val(Arg(i).metadata), Val(Arg(i).referred_by))
                  ELSE Val(Arg(i).metadata)

C1_Witness ==
  /\ Invoked(1, "add_subscriber") /\ Sent(1)
  /\ Arg(1).referred_by = {"REF1"}
  /\ Arg(1).metadata = {[referred_by |-> "OLD", company |-> "Acme"]}
  /\ Body(1)["metadata"] = [referred_by |-> "REF1", company |-> "Acme"]

\* limit outside [1,100] or page below 1.
OutOfRange(a) ==
  \/ a.limit # {} /\ (Val(a.limit) < 1 \/ Val(a.limit) > 100)
  \/ a.page # {} /\ Val(a.page) < 1

\* C2: a list_subscribers call whose limit is outside [1,100] or whose page is
\* below 1 ends with a local validation error and no fetch call is made for it.
C2_OutOfRangeRejected ==
  \A i \in DOMAIN inv :
    (Invoked(i, "list_subscribers") /\ OutOfRange(Arg(i)))
      => /\ Done(i)
         /\ inv[i].outcomes = <<InvalidParams>>
         /\ inv[i].calls = <<>>

C2_Witness ==
  /\ Invoked(1, "list_subscribers") /\ Done(1)
  /\ Arg(1).limit = {101} /\ Arg(1).page = {1}
  /\ inv[1].calls = <<>>

\* C3: in the PUT body of an update_subscriber call each of name, phone, points
\* and metadata is a key if and only if the caller supplied it, and then with the
\* supplied value, 0 and the empty string included.
C3_PartialUpdate ==
  \A i \in DOMAIN inv :
    (Invoked(i, "update_subscriber") /\ Sent(i))
      => /\ Init1(i)["method"] = "PUT"
         /\ DOMAIN Body(i) \subseteq {"name", "phone", "points", "metadata"}
         /\ \A f \in {"name", "phone", "points", "metadata"} :
              /\ f \in DOMAIN Body(i) <=> Arg(i)[f] # {}
              /\ Arg(i)[f] # {} => Body(i)[f] = Val(Arg(i)[f])

C3_Witness ==
  /\ Invoked(1, "update_subscriber") /\ Sent(1)
  /\ Arg(1).name = {""} /\ Arg(1).points = {0} /\ Arg(1).phone = {}
  /\ DOMAIN Body(1) = {"name", "points"}
  /\ Body(1)["name"] = "" /\ Body(1)["points"] = 0

\* C4 as stated: an add_subscriber call with metadata the empty object and no
\* referred_by sends a body without a metadata field.
C4_AsStated ==
  \A i \in DOMAIN inv :
    (Invoked(i, "add_subscriber") /\ SchemaOk(i)
       /\ Arg(i).metadata = {EmptyObj} /\ Arg(i).referred_by = {})
      => Sent(i) /\ "metadata" \notin DOMAIN Body(i)

\* C4 amended: such a call sends a body whose metadata field is the empty object;
\* the body has no metadata field only when metadata is omitted too.
C4_EmptyMetadataSent ==
  \A i \in DOMAIN inv :
    (Invoked(i, "add_subscriber") /\ SchemaOk(i) /\ Arg(i).referred_by = {})
      => /\ Sent(i)
         /\ Arg(i).metadata = {EmptyObj}
              => "metadata" \in DOMAIN Body(i) /\ Body(i)["metadata"] = EmptyObj
         /\ Arg(i).metadata = {} => "metadata" \notin DOMAIN Body(i)

C4_Witness ==
  /\ Invoked(1, "add_subscriber") /\ Sent(1)
  /\ Arg(1).metadata = {EmptyObj} /\ Arg(1).referred_by = {}
  /\ Body(1)["metadata"] = EmptyObj

\* C5 as stated: the body of a log_view call has visitor_id whenever the caller
\* supplied it, for every string; a supplied referring_domain is
\* metadata.referring_domain and never a top-level key; a field not supplied is
\* absent.
C5_AsStated ==
  \A i \in DOMAIN inv :
    Invoked(i, "log_view")
      => /\ Sent(i)
         /\ Init1(i)["method"] = "POST"
         /\ "referring_domain" \notin DOMAIN Body(i)
         /\ "visitor_id" \in DOMAIN Body(i) <=> Arg(i).visitor_id # {}
         /\ Arg(i).visitor_id # {} => Body(i)["visitor_id"] = Val(Arg(i).visitor_id)
         /\ "metadata" \in DOMAIN Body(i) <=> Arg(i).referring_domain # {}
         /\ Arg(i).referring_domain # {}
              => Body(i)["metadata"] = [referring_domain |-> Val(Arg(i).referring_domain)]

\* C5 amended: the same for non-empty strings; a visitor_id or referring_domain
\* that is the empty string is left out of the body like one not supplied.
C5_LogViewBody ==
  \A i \in DOMAIN inv :
    Invoked(i, "log_view")
      => /\ Sent(i)
         /\ Init1(i)["method"] = "POST"
         /\ "referring_domain" \notin DOMAIN Body(i)
         /\ "visitor_id" \in DOMAIN Body(i) <=> TruthyStr(Arg(i).visitor_id)
         /\ TruthyStr(Arg(i).visitor_id)
              => Body(i)["visitor_id"] = Val(Arg(i).visitor_id)
         /\ "metadata" \in DOMAIN Body(i) <=> TruthyStr(Arg(i).referring_domain)
         /\ TruthyStr(Arg(i).referring_domain)
              => Body(i)["metadata"] = [referring_domain |-> Val(Arg(i).referring_domain)]

C5_Witness ==
  /\ Invoked(1, "log_view") /\ Sent(1)
  /\ Arg(1).visitor_id = {"v1"} /\ Arg(1).referring_domain = {"t.co"}
  /\ Body(1) = [visitor_id |-> "v1", metadata |-> [referring_domain |-> "t.co"]]

\* Invocation i got a response whose status is outside the success range.
Failed(i) ==
  /\ Done(i) /\ inv[i].response # <<>> /\ inv[i].data # <<>>
  /\ ~Ok(inv[i].response[1].status)

GenericText(r) == "API error: " \o ToString(r.status) \o " " \o r.statusText

\* C6: an invocation whose response has a status outside the success range and a
\* JSON body with a message field X fails, and its error text is exactly X.
C6_MessageSurfaced ==
  \A i \in DOMAIN inv :
    (Failed(i) /\ HasMessage(inv[i].data[1]))
      => inv[i].outcomes = <<[kind |-> "error", text |-> inv[i].data[1].o["message"]]>>

C6_Witness ==
  /\ Invoked(1, "get_subscriber") /\ Failed(1)
  /\ Arg(1).id_or_email = {<<"a", "@">>}
  /\ inv[1].response[1].status = 404
  /\ inv[1].data[1] = [t |-> "object", o |-> [message |-> "Not found"]]
  /\ inv[1].outcomes = <<[kind |-> "error", text |-> "Not found"]>>

\* C7 as stated: an invocation whose response has a status outside the success
\* range and a body without a message field, whatever the body is otherwise,
\* fails with the error text "API error: <status> <statusText>".
C7_AsStated ==
  \A i \in DOMAIN inv :
    (Failed(i) /\ ~HasMessage(inv[i].data[1]))
      => inv[i].outcomes = <<[kind |-> "error", text |-> GenericText(inv[i].response[1])]>>

\* C7 amended: the same for a body that parses as JSON; for a body that does not
\* parse the invocation fails with the text of the parse error.
C7_GenericText ==
  \A i \in DOMAIN inv :
    (Failed(i) /\ ~HasMessage(inv[i].data[1]))
      => inv[i].outcomes =
           << [kind |-> "error",
               text |-> IF inv[i].data[1].t = "unparsable"
                          THEN inv[i].data[1].message
                          ELSE GenericText(inv[i].response[1])] >>

C7_Witness ==
  /\ Failed(1)
  /\ inv[1].response[1] = [status |-> 500, statusText |-> "Internal Server Error"]
  /\ inv[1].data[1] = [t |-> "object", o |-> [id |-> "1"]]
  /\ inv[1].outcomes = <<[kind |-> "error", text |-> "API error: 500 Internal Server Error"]>>

\* C8: when the API key or the waitlist key is unset or empty, the process only
\* checks credentials and exits with status 1: no tool is ever registered, the
\* transport is never connected and no fetch call is ever made.
C8_MissingCredentialFatal ==
  (API_KEY \in {{}, {""}} \/ WAITLIST_KEY \in {{}, {""}})
    => /\ pc \in {"check_api_key", "check_waitlist_key", "exited"}
       /\ pc = "check_waitlist_key" => API_KEY \notin {{}, {""}}
       /\ pc = "exited" <=> exitCode = {1}
       /\ exitCode \in {{}, {1}}
       /\ tools = <<>>
       /\ ~connected
       /\ \A i \in DOMAIN inv : inv[i] = Idle

C8_Witness ==
  /\ API_KEY = {"sk_1"} /\ WAITLIST_KEY = {""}
  /\ pc = "exited" /\ exitCode = {1} /\ tools = <<>>

\* The id_or_email of invocation i cannot be encoded: encodeURIComponent throws.
Unencodable(i) ==
  /\ inv[i].tool \in {"get_subscriber", "update_subscriber"}
  /\ encodeURIComponent(Val(Arg(i).id_or_email)).thrown

\* C9 as stated: an invocation that passes schema validation makes exactly one
\* fetch call and ends with exactly one outcome, a result or an error.
C9_AsStated ==
  \A i \in DOMAIN inv :
    (inv[i].phase # "idle" /\ SchemaOk(i))
      => /\ Len(inv[i].calls) = 1
         /\ Len(inv[i].outcomes) = IF Done(i) THEN 1 ELSE 0
         /\ Done(i) => inv[i].outcomes[1].kind \in {"result", "error"}

\* C9 amended: an invocation that passes schema validation makes exactly one
\* fetch call, or none when its id_or_email cannot be encoded, never a second one
\* after a failure, and ends with exactly one outcome, a result or an error.
C9_OneRequestOneOutcome ==
  \A i \in DOMAIN inv :
    (inv[i].phase # "idle" /\ SchemaOk(i))
      => /\ Len(inv[i].calls) = IF Unencodable(i) THEN 0 ELSE 1
         /\ Len(inv[i].outcomes) = IF Done(i) THEN 1 ELSE 0
         /\ Done(i) => inv[i].outcomes[1].kind \in {"result", "error"}
         /\ Unencodable(i) => Done(i) /\ inv[i].outcomes[1].kind = "error"

C9_Witness ==
  /\ Invoked(1, "update_subscriber") /\ Failed(1)
  /\ Len(inv[1].calls) = 1
  /\ inv[1].outcomes = <<[kind |-> "error", text |-> "Not found"]>>

\* What invocation i must have sent and got, from its own arguments, the
\* credentials, and what its own fetch and response.json() settled with.
OwnCall(i) ==
  CASE inv[i].tool = "add_subscriber" -> add_subscriber_call(Arg(i))
    [] inv[i].tool = "list_subscribers" -> list_subscribers_call(Arg(i))
    [] inv[i].tool = "get_subscriber" -> get_subscriber_call(Arg(i))
    [] inv[i].tool = "update_subscriber" -> update_subscriber_call(Arg(i))
    [] inv[i].tool = "log_view" -> log_view_call(Arg(i))

Independent(i) ==
  IF ~SchemaOk(i)
    THEN Done(i) /\ inv[i].calls = <<>> /\ inv[i].outcomes = <<InvalidParams>>
  ELSE IF OwnCall(i).thrown
    THEN Done(i) /\ inv[i].calls = <<>> /\ inv[i].outcomes = <<ToolOutcome(URIError)>>
  ELSE /\ Len(inv[i].calls) = 1
       /\ inv[i].calls[1].url
            = API_BASE \o "/waitlist/" \o Val(WAITLIST_KEY) \o OwnCall(i).path
       /\ inv[i].calls[1].init["headers"]["X-Api-Key"] = Val(API_KEY)
       /\ \A k \in DOMAIN OwnCall(i).options :
            inv[i].calls[1].init[k] = OwnCall(i).options[k]
       /\ inv[i].phase = "fetch"
            => inv[i].failure = <<>> /\ inv[i].response = <<>> /\ inv[i].outcomes = <<>>
       /\ inv[i].phase = "json"
            => inv[i].failure = <<>> /\ Len(inv[i].response) = 1 /\ inv[i].outcomes = <<>>
       /\ Done(i) =>
            \/ /\ Len(inv[i].failure) = 1 /\ inv[i].response = <<>>
               /\ inv[i].outcomes = <<[kind |-> "error", text |-> inv[i].failure[1].message]>>
            \/ /\ inv[i].failure = <<>> /\ Len(inv[i].response) = 1 /\ Len(inv[i].data) = 1
               /\ inv[i].outcomes
                    = <<ToolOutcome(apiRequest(inv[i].response[1], inv[i].data[1]))>>

\* C10: with invocations in flight at once and settling in any order, what each
\* invocation sent and what it returned is determined by its own arguments and
\* its own response, whatever the others did; and the two credentials never
\* change and are the ones every request carries.
C10_Independence ==
  /\ [](\A i \in DOMAIN inv : inv[i].phase # "idle" => Independent(i))
  /\ [][API_KEY' = API_KEY /\ WAITLIST_KEY' = WAITLIST_KEY]_vars

C10_Witness ==
  /\ Invoked(1, "get_subscriber") /\ Failed(1)
  /\ inv[1].outcomes = <<[kind |-> "error", text |-> "Not found"]>>
  /\ Invoked(2, "log_view") /\ Done(2)
  /\ inv[2].outcomes[1].kind = "result"

====
